---- MODULE Spec2Model ----
(***************************************************************************)
(* Connection manager of the Samsung TV remote (src/src/tv.ts): the single *)
(* ConnectionState slot (ws, connectedDevice, savedToken), the persisted   *)
(* SavedConnection record, the WebSocket handshake of connectWS with its   *)
(* listeners and timer, and the async calls connectToTV, autoReconnect and *)
(* disconnect as the request layer (src/unnamed/part_000) issues them.     *)
(*                                                                         *)
(* One step of the model is one turn of the event loop: a socket event or  *)
(* an I/O completion together with the listeners it runs and the promise   *)
(* continuations (microtasks) those listeners release.                     *)
(***************************************************************************)
EXTENDS Integers, Sequences, FiniteSets, TLC

VARIABLES
  ws,               \* tv.ts:33   index into sockets, 0 for null
  connectedDevice,  \* tv.ts:34   a device record, Null for null
  savedToken,       \* tv.ts:35   a token, None for undefined
  file,             \* the content of TOKEN_FILE (tv.ts:14)
  sockets,          \* the WebSockets of this process in creation order, without
                    \* those that are closed and no longer referenced
  calls,            \* the connectToTV / autoReconnect calls, by request slot
  returned,         \* history: what the step just taken returned to its caller,
                    \* Null when no call returned in it
  lastOk,           \* history: ip and token of the last connectToTV that returned success
  search,           \* the smartSearch call in progress: its position and its locals
  dispatched,       \* history: the messages the step just taken passed to ws.send
  requests,         \* history: the HTTP requests the step just taken issued (fetch)
  parse,            \* the last parseSmartQuery call: its argument and its result
  discovery         \* the discoverTVs call in progress: its position and its locals

vars == <<ws, connectedDevice, savedToken, file, sockets, calls, returned, lastOk,
          search, dispatched, requests, parse, discovery>>

-----------------------------------------------------------------------------
(* Bounds *)

MaxSockets == 3      \* sockets that may exist together (not yet closed and dropped)
MaxCalls == 2        \* request slots: calls that may be in progress together
MaxOverlapSockets == 2   \* sockets that may exist together when calls overlap
MaxCmdSockets == 2       \* sockets that may exist together while commands are sent
MaxWords == 4            \* words of a query made of any words
MaxSearchSockets == 1    \* sockets that may exist together in the smartSearch runs
MaxHosts == 3            \* host addresses of the subnet that discoverTVs probes

(* Values *)

None == "none"                 \* undefined
Null == [null |-> TRUE]        \* null
NoSocket == 0

CallIds == 1..MaxCalls

PRIMARY_PORT == 8002           \* tv.ts:208
SECONDARY_PORT == 8001         \* tv.ts:210
NoPort == 0                    \* the port argument left out

\* The devices a caller may name.
Devices ==
  { [ip |-> "ip1", mac |-> "m1", friendlyName |-> "TV"],
    [ip |-> "ip2", mac |-> "",   friendlyName |-> None] }

\* The tokens the device at ip may issue in its confirmation event.
\* (the TV at ip2 is of the kind that pairs without a token).
Issued(ip) == IF ip = "ip1" THEN {"A1", "A2"} ELSE {}

\* The port argument: left out, or given.
Ports == {NoPort, SECONDARY_PORT}

-----------------------------------------------------------------------------
(* Pure helpers *)

\* JavaScript truthiness of an optional string.
Truthy(x) == x # None /\ x # ""

\* The record saveConnection writes (JSON.stringify of {ip, mac, friendlyName, token}).
SavedConnectionNoToken(device, token) ==
  [ip |-> device.ip, mac |-> device.mac,
   friendlyName |-> device.friendlyName, token |-> None]

SavedConnection(device, token) ==
  [ip |-> device.ip, mac |-> device.mac,
   friendlyName |-> device.friendlyName, token |-> token]

Corrupt == [corrupt |-> TRUE]  \* a TOKEN_FILE that does not parse

\* loadSavedConnection: the parsed record, null when the file is absent or unreadable.
loadSavedConnection(f) == IF f = Null \/ f = Corrupt THEN Null ELSE f

\* connectToTV's local `token`: the saved token, only for the same ip.
TokenNoIpCheck(saved, ip) ==
  IF saved # Null /\ Truthy(saved.token) THEN saved.token ELSE None

SavedTokenFor(saved, ip) ==
  IF saved # Null /\ saved.ip = ip /\ Truthy(saved.token) THEN saved.token ELSE None

\* buildWSUrl: the connection parameters the url carries.
buildWSUrl(ip, port, token) ==
  [protocol |-> IF port = 8001 THEN "ws" ELSE "wss",
   ip |-> ip, port |-> port,
   token |-> IF Truthy(token) THEN token ELSE None]

\* connectWS's resolve value: `newToken || token`.
ResolveTokenFreshOnly(newToken, token) == newToken

ResolveToken(newToken, token) == IF Truthy(newToken) THEN newToken ELSE token

\* The listeners connectWS attaches, and those connectToTV attaches on success.
HandshakeListeners == {"hsError", "hsMessage", "hsClose"}
ConnectedListeners == {"ctMessage", "ctClose"}

\* new WebSocket(url) plus connectWS's timer, listeners and promise.  The url is
\* kept with the call that awaits the handshake (calls[c].url).
NewSocket ==
  [readyState |-> "CONNECTING",
   listeners |-> HandshakeListeners,
   timer |-> TRUE,
   promise |-> "pending"]

\* socket.close() as the ws library performs it.
WsClose(readyState) ==
  IF readyState \in {"CONNECTING", "OPEN"} THEN "CLOSING" ELSE readyState

\* socket.removeAllListeners()
KeepListeners(ls) == ls

removeAllListeners(ls) == {}

IdleCall ==
  [pc |-> "idle", kind |-> None, device |-> Null, port |-> NoPort,
   token |-> None, sock |-> NoSocket, url |-> Null, attempt |-> 0,
   first |-> None, newToken |-> None, resultToken |-> None]
\* first: what ended the first of two handshake attempts ("1005", "io", "close",
\* "timeout"); the code drops it (`catch {}`), the model keeps it for the record.

\* parseSmartQuery has not been called; no discoverTVs call is in progress.
NoParse == [query |-> None, result |-> None]
IdleDiscovery == [pc |-> "idle", passive |-> None, probes |-> <<>>, result |-> None]

\* No smartSearch call is in progress.
IdleSearch ==
  [pc |-> "idle", query |-> None, app |-> None, searchTerm |-> None, direct |-> None]

\* getStatus()
getStatus ==
  [connected |-> ws # NoSocket /\ sockets[ws].readyState = "OPEN",
   device |-> connectedDevice]

-----------------------------------------------------------------------------
(* State *)

\* A record an earlier run of the program may have left on disk.
SavedRecords ==
  UNION { { SavedConnection(d, t) : t \in {None} \cup Issued(d.ip) } : d \in Devices }

Init ==
  /\ ws = NoSocket
  /\ connectedDevice = Null
  /\ savedToken = None
  /\ file \in {Null, Corrupt} \cup SavedRecords
  /\ sockets = <<>>
  /\ calls = [c \in CallIds |-> IdleCall]
  /\ returned = Null
  /\ lastOk = Null
  /\ search = IdleSearch
  /\ dispatched = <<>>
  /\ requests = {}
  /\ parse = NoParse
  /\ discovery = IdleDiscovery

\* A step of the connection manager sends nothing, requests nothing and leaves
\* the smartSearch in progress where it is.
NoCommand ==
  dispatched' = <<>> /\ requests' = {} /\ UNCHANGED <<search, parse, discovery>>

\* No call is in progress.
Free(c) == calls[c].pc = "idle"
AllFree == \A c \in CallIds : Free(c)
\* A new call takes the lowest free slot.
NextSlot(c) == Free(c) /\ \A b \in CallIds : b < c => ~Free(b)

\* Sockets the calls in progress may still open.
Need(call) ==
  CASE call.pc = "autoLoad" -> 2
    [] call.pc = "loading" -> IF call.port = NoPort THEN 2 ELSE 1
    [] call.pc = "hs" /\ call.port = NoPort /\ call.attempt = 1 -> 1
    [] OTHER -> 0
RECURSIVE Reserved(_)
Reserved(n) == IF n = 0 THEN 0 ELSE Need(calls[n]) + Reserved(n - 1)
CanOpenOf(n, max) == Len(sockets) + Reserved(MaxCalls) + n <= max
CanOpen(n) == CanOpenOf(n, MaxSockets)

\* A closed socket that neither ws nor an awaiting call refers to is dropped.
Kept(socks, w, cs, s) ==
  \/ socks[s].readyState # "CLOSED"
  \/ s = w
  \/ \E c \in CallIds : cs[c].sock = s
\* The index of socket s once the dropped ones are gone.
Renumber(socks, w, cs, s) ==
  IF s = NoSocket THEN NoSocket
  ELSE Cardinality({r \in 1..s : Kept(socks, w, cs, r)})
RECURSIVE Compact(_, _, _, _)
Compact(socks, w, cs, n) ==
  IF n = 0 THEN <<>>
  ELSE IF Kept(socks, w, cs, n)
       THEN Append(Compact(socks, w, cs, n - 1), socks[n])
       ELSE Compact(socks, w, cs, n - 1)

\* The step's new ws, calls and sockets.
Commit(w, cs, socks) ==
  /\ ws' = Renumber(socks, w, cs, w)
  /\ calls' = [c \in CallIds |->
                 [cs[c] EXCEPT !.sock = Renumber(socks, w, cs, @)]]
  /\ sockets' = Compact(socks, w, cs, Len(socks))

-----------------------------------------------------------------------------
(* disconnect() *)

\* The sockets after disconnect() ran with ws = w: listeners detached, transport closed.
disconnectSockets(socks, w) ==
  IF w = NoSocket THEN socks
  ELSE [socks EXCEPT ![w].listeners = removeAllListeners(@),
                     ![w].readyState = WsClose(@)]

\* connectedDevice after disconnect().
disconnectKeepsDevice(w, device) == device

disconnectDevice(w, device) == IF w # NoSocket THEN Null ELSE device

disconnect ==
  /\ Commit(NoSocket, calls, disconnectSockets(sockets, ws))
  /\ connectedDevice' = disconnectDevice(ws, connectedDevice)
  /\ returned' = [op |-> "disconnect"]
  /\ NoCommand
  /\ UNCHANGED <<savedToken, file, lastOk>>

-----------------------------------------------------------------------------
(* connectToTV and autoReconnect *)

\* What autoReconnect returns for the result of its connectToTV.
autoReconnectResult(success) == success

\* What the caller gets when connectToTV returns {success, error}: with it, for the
\* record, the call's arguments, what its handshakes presented and received, and
\* what ended its last handshake attempt when that one was rejected (last).
Return(call, success, error, last) ==
  [op |-> call.kind, called |-> TRUE, success |-> success, error |-> error,
   last |-> last,
   autoResult |-> IF call.kind = "autoReconnect"
                  THEN autoReconnectResult(success) ELSE FALSE,
   device |-> call.device, port |-> call.port, first |-> call.first,
   token |-> call.token, newToken |-> call.newToken,
   resultToken |-> call.resultToken]

\* autoReconnect returns false without calling connectToTV.
ReturnNoSaved ==
  [op |-> "autoReconnect", called |-> FALSE, success |-> FALSE, error |-> None,
   last |-> None, autoResult |-> FALSE, device |-> Null, port |-> NoPort, first |-> None,
   token |-> None, newToken |-> None, resultToken |-> None]

\* connectToTV up to its first await: disconnect(), then start loading the record.
Enter(c, kind, device, port) ==
  /\ Commit(NoSocket,
            [calls EXCEPT ![c] =
               [IdleCall EXCEPT !.pc = "loading", !.kind = kind,
                                !.device = device, !.port = port]],
            disconnectSockets(sockets, ws))
  /\ connectedDevice' = disconnectDevice(ws, connectedDevice)
  /\ returned' = Null
  /\ NoCommand
  /\ UNCHANGED <<savedToken, file, lastOk>>

connectToTV(c, device, port) ==
  /\ NextSlot(c)
  /\ CanOpen(IF port = NoPort THEN 2 ELSE 1)
  /\ Enter(c, "connectToTV", device, port)

autoReconnect(c) ==
  /\ NextSlot(c)
  /\ CanOpen(2)
  /\ calls' = [calls EXCEPT ![c] =
                 [IdleCall EXCEPT !.pc = "autoLoad", !.kind = "autoReconnect"]]
  /\ returned' = Null
  /\ NoCommand
  /\ UNCHANGED <<ws, connectedDevice, savedToken, file, sockets, lastOk>>

\* Whether autoReconnect gives up after loading `saved`.
autoReconnectNeverGivesUp(saved) == FALSE

autoReconnectGivesUp(saved) == saved = Null

\* autoReconnect after `await loadSavedConnection()`.
autoReconnectLoaded(c) ==
  /\ calls[c].pc = "autoLoad"
  /\ LET saved == loadSavedConnection(file) IN
     IF autoReconnectGivesUp(saved)
     THEN /\ calls' = [calls EXCEPT ![c] = IdleCall]
          /\ returned' = ReturnNoSaved
          /\ NoCommand
          /\ UNCHANGED <<ws, connectedDevice, savedToken, file, sockets, lastOk>>
     ELSE Enter(c, "autoReconnect",
                IF saved = Null THEN Null
                ELSE [ip |-> saved.ip, mac |-> saved.mac,
                      friendlyName |-> saved.friendlyName],
                NoPort)

\* connectToTV after `await loadSavedConnection()`: choose the token, open the
\* first handshake (the given port, else the primary port).
connectLoaded(c) ==
  /\ calls[c].pc = "loading"
  /\ calls[c].device # Null
  /\ Len(sockets) < MaxSockets
  /\ LET saved == loadSavedConnection(file)
         token == SavedTokenFor(saved, calls[c].device.ip)
         port == IF calls[c].port # NoPort THEN calls[c].port ELSE PRIMARY_PORT
     IN /\ calls' = [calls EXCEPT ![c] =
             [@ EXCEPT !.pc = "hs", !.token = token,
                       !.sock = Len(sockets) + 1, !.attempt = 1,
                       !.url = buildWSUrl(calls[c].device.ip, port, token)]]
        /\ sockets' = Append(sockets, NewSocket)
  /\ returned' = Null
  /\ NoCommand
  /\ UNCHANGED <<ws, connectedDevice, savedToken, file, lastOk>>

-----------------------------------------------------------------------------
(* connectWS: the handshake promise and what connectToTV does when it settles *)

\* The call awaiting the handshake promise of socket s.
Awaiting(s) == {c \in CallIds : calls[c].pc = "hs" /\ calls[c].sock = s}

\* The message connectWS rejects with for an 'error' event of the given kind
\* ("1005": the message holds "1005"; "io": any other error).
ErrorMessage(kind) == IF kind = "1005" THEN "rejected" ELSE "io"

\* connectToTV resumes with the result of connectWS: the socket becomes the
\* connection and saveConnection starts.  socks: the sockets after the listeners ran.
Resolved(c, socks, newToken) ==
  /\ Commit(calls[c].sock,
            [calls EXCEPT ![c] =
               [@ EXCEPT !.pc = "saving", !.newToken = newToken, !.url = Null,
                         !.resultToken = ResolveToken(newToken, calls[c].token)]],
            socks)
  /\ savedToken' = ResolveToken(newToken, calls[c].token)
  /\ connectedDevice' = calls[c].device
  /\ returned' = Null
  /\ NoCommand
  /\ UNCHANGED <<file, lastOk>>

\* connectedDevice after connectToTV's catch block.
catchKeepsDevice(device) == device

catchDevice(device) == Null

\* Whether a rejected handshake is followed by the attempt on the secondary port.
AlwaysTriesSecondary(call) == call.attempt = 1

TriesSecondary(call) == call.port = NoPort /\ call.attempt = 1

\* connectToTV resumes with connectWS's rejection: the secondary port after the
\* primary one when no port was given, else the catch block.
Rejected(c, socks, event, error) ==
  /\ UNCHANGED <<savedToken, file, lastOk>>
  /\ NoCommand
  /\ IF TriesSecondary(calls[c])
     THEN /\ Commit(ws,
                    [calls EXCEPT ![c] =
                       [@ EXCEPT !.sock = Len(socks) + 1, !.attempt = 2,
                                 !.first = event,
                                 !.url = buildWSUrl(calls[c].device.ip,
                                                    SECONDARY_PORT, calls[c].token)]],
                    Append(socks, NewSocket))
          /\ UNCHANGED connectedDevice
          /\ returned' = Null
     ELSE /\ Commit(NoSocket, [calls EXCEPT ![c] = IdleCall], socks)
          /\ connectedDevice' = catchDevice(connectedDevice)
          /\ returned' = Return(calls[c], FALSE, error, event)

\* The listeners ran and released no continuation.
NoContinuation(socks) ==
  /\ Commit(ws, calls, socks)
  /\ returned' = Null
  /\ NoCommand
  /\ UNCHANGED <<connectedDevice, savedToken, file, lastOk>>

\* The transport finished its opening handshake (nothing listens for 'open').
SocketOpen(s) ==
  /\ sockets[s].readyState = "CONNECTING"
  /\ sockets' = [sockets EXCEPT ![s].readyState = "OPEN"]
  /\ returned' = Null
  /\ NoCommand
  /\ UNCHANGED <<ws, connectedDevice, savedToken, file, calls, lastOk>>

\* 'message' carrying the ms.channel.connect event, with the token newToken.
ConfirmEvent(s, newToken) ==
  /\ sockets[s].readyState = "OPEN"
  /\ "hsMessage" \in sockets[s].listeners
  /\ LET pending == sockets[s].promise = "pending"
         socks == [sockets EXCEPT ![s].timer = FALSE,
                                  ![s].promise = IF pending THEN "resolved" ELSE @]
     IN IF pending /\ Awaiting(s) # {}
        THEN Resolved(CHOOSE c \in Awaiting(s) : TRUE, socks, newToken)
        ELSE NoContinuation(socks)

\* 'error': the ws library gives up the transport and emits the error.
ErrorEvent(s, kind) ==
  /\ sockets[s].readyState \in {"CONNECTING", "OPEN"}
  /\ IF "hsError" \in sockets[s].listeners
     THEN LET pending == sockets[s].promise = "pending"
              socks == [sockets EXCEPT
                 ![s].readyState = "CLOSING",
                 ![s].timer = FALSE,
                 ![s].listeners = removeAllListeners(@),
                 ![s].promise = IF pending THEN "rejected" ELSE @]
          IN IF pending /\ Awaiting(s) # {}
             THEN Rejected(CHOOSE c \in Awaiting(s) : TRUE, socks, kind,
                           ErrorMessage(kind))
             ELSE NoContinuation(socks)
     ELSE NoContinuation([sockets EXCEPT ![s].readyState = "CLOSING"])

\* connectedDevice after connectToTV's 'close' listener.
closeListenerKeepsDevice(device) == device

closeListenerDevice(device) == Null

\* 'close': the transport is gone.  connectWS's listener rejects; connectToTV's
\* listener clears the ConnectionState.
CloseEvent(s) ==
  /\ sockets[s].readyState \in {"OPEN", "CLOSING"}
  /\ LET hs == "hsClose" \in sockets[s].listeners
         ct == "ctClose" \in sockets[s].listeners
         pending == hs /\ sockets[s].promise = "pending"
         socks == [sockets EXCEPT
            ![s].readyState = "CLOSED",
            ![s].timer = IF hs THEN FALSE ELSE @,
            ![s].promise = IF pending THEN "rejected" ELSE @]
     IN IF pending /\ Awaiting(s) # {}
        THEN Rejected(CHOOSE c \in Awaiting(s) : TRUE, socks, "close", "closed")
        ELSE /\ Commit(IF ct THEN NoSocket ELSE ws, calls, socks)
             /\ returned' = Null
             /\ NoCommand
             /\ connectedDevice' =
                  IF ct THEN closeListenerDevice(connectedDevice) ELSE connectedDevice
             /\ UNCHANGED <<savedToken, file, lastOk>>

\* connectWS's timer fires: detach, close, reject.
TimeoutEvent(s) ==
  /\ sockets[s].timer
  /\ LET pending == sockets[s].promise = "pending"
         socks == [sockets EXCEPT
            ![s].timer = FALSE,
            ![s].listeners = removeAllListeners(@),
            ![s].readyState = WsClose(@),
            ![s].promise = IF pending THEN "timeout" ELSE @]
     IN IF pending /\ Awaiting(s) # {}
        THEN Rejected(CHOOSE c \in Awaiting(s) : TRUE, socks, "timeout", "timeout")
        ELSE NoContinuation(socks)

-----------------------------------------------------------------------------
(* connectToTV after the handshake: saveConnection, then the listeners *)

\* saveConnection wrote the record; connectToTV attaches its listeners to the
\* socket `ws` names now and returns success (ws.on raises when ws is null).
saveConnectionDone(c) ==
  /\ calls[c].pc = "saving"
  /\ file' = SavedConnection(calls[c].device, calls[c].resultToken)
  /\ UNCHANGED savedToken
  /\ NoCommand
  /\ IF ws = NoSocket
     THEN /\ Commit(NoSocket, [calls EXCEPT ![c] = IdleCall], sockets)
          /\ returned' = Return(calls[c], FALSE, "typeerror", None)
          /\ connectedDevice' = catchDevice(connectedDevice)
          /\ UNCHANGED lastOk
     ELSE /\ Commit(ws, [calls EXCEPT ![c] = IdleCall],
                    [sockets EXCEPT ![ws].listeners = @ \cup ConnectedListeners])
          /\ returned' = Return(calls[c], TRUE, None, None)
          /\ lastOk' = [ip |-> calls[c].device.ip, token |-> calls[c].resultToken]
          /\ UNCHANGED connectedDevice

\* mkdir or writeFile failed: the catch block; the record on disk stays as it was.
saveConnectionFailed(c) ==
  /\ calls[c].pc = "saving"
  /\ Commit(NoSocket, [calls EXCEPT ![c] = IdleCall], sockets)
  /\ returned' = Return(calls[c], FALSE, "persist", None)
  /\ NoCommand
  /\ connectedDevice' = catchDevice(connectedDevice)
  /\ UNCHANGED <<savedToken, file, lastOk>>

\* The process ends and starts again: memory and sockets are gone, the file stays.
Restart ==
  /\ ws' = NoSocket
  /\ connectedDevice' = Null
  /\ savedToken' = None
  /\ sockets' = <<>>
  /\ calls' = [c \in CallIds |-> IdleCall]
  /\ returned' = Null
  /\ search' = IdleSearch
  /\ dispatched' = <<>>
  /\ requests' = {}
  /\ parse' = NoParse
  /\ discovery' = IdleDiscovery
  /\ UNCHANGED <<file, lastOk>>

-----------------------------------------------------------------------------
(* Commands: sendKey and sendText *)

\* The property names every JavaScript object inherits from Object.prototype
\* (two of them), and the function objects they hold.
ObjectPrototype == {"constructor", "toString"}
Function == "function"

\* table[name] in JavaScript: the table's own entry, else the inherited
\* property, else undefined.
Lookup(table, name) ==
  IF name \in DOMAIN table THEN table[name]
  ELSE IF name \in ObjectPrototype THEN Function
  ELSE None

\* JSON.stringify of a property value: a function or undefined is left out.
JsonValue(v) == IF v = Function THEN None ELSE v

\* Keys, the symbolic-key table of samsung-tv-remote (two of its entries), and
\* the codes it holds.
Keys == [k \in {"KEY_HOME", "KEY_ENTER"} |-> <<"Keys", k>>]

\* The keys a caller may name: in the table, not in the table, inherited.
KeyInputs == {"KEY_HOME", "KEY_NEW", "constructor"}

\* Buffer.from(text).toString("base64")
Base64(text) == <<"base64", text>>

\* The texts a caller may send.
TextInputs == {"hello"}

\* `ws && ws.readyState === WebSocket.OPEN`
channelHasSocket(w, socks) == w # NoSocket

channelOpen(w, socks) == w # NoSocket /\ socks[w].readyState = "OPEN"

\* The messages sendKey, sendRawKey and sendText pass to ws.send.
KeyClick(data) ==
  [method |-> "ms.remote.control", Cmd |-> "Click", DataOfCmd |-> JsonValue(data),
   Option |-> FALSE, TypeOfRemote |-> "SendRemoteKey"]
InputString(text) ==
  [method |-> "ms.remote.control", Cmd |-> Base64(text), DataOfCmd |-> "base64",
   TypeOfRemote |-> "SendInputString"]

\* sendRawKey(key): the messages it sends.
sendRawKey(key, w, socks) ==
  IF channelOpen(w, socks) THEN <<KeyClick(key)>> ELSE <<>>

\* The messages sendKey sends for the looked-up keyValue.
sendKeyMessages(key, keyValue, w, socks) ==
  IF keyValue = None THEN sendRawKey(key, w, socks) ELSE <<KeyClick(keyValue)>>

\* connectedDevice after the catch block of sendKey and sendText.
sendCatchKeepsDevice(device) == device

sendCatchDevice(device) == Null

\* What sendKey and sendText return, with the argument and whether ws.send
\* raised, for the record.
CommandReturn(op, arg, success, error, raised) ==
  [op |-> op, arg |-> arg, success |-> success, error |-> error, raised |-> raised]

\* The body sendKey and sendText share: the check, then the try block around
\* ws.send of the messages, which raises or not.
Send(op, arg, messages) ==
  /\ UNCHANGED <<savedToken, file, lastOk, search, parse, discovery>>
  /\ requests' = {}
  /\ IF ~channelOpen(ws, sockets)
     THEN /\ returned' = CommandReturn(op, arg, FALSE, "NotConnected", FALSE)
          /\ dispatched' = <<>>
          /\ UNCHANGED <<ws, connectedDevice, sockets, calls>>
     ELSE \/ /\ returned' = CommandReturn(op, arg, FALSE, "transport", TRUE)
             /\ dispatched' = <<>>
             /\ Commit(NoSocket, calls, sockets)
             /\ connectedDevice' = sendCatchDevice(connectedDevice)
          \/ /\ returned' = CommandReturn(op, arg, TRUE, None, FALSE)
             /\ dispatched' = messages
             /\ UNCHANGED <<ws, connectedDevice, sockets, calls>>

sendKey(key) ==
  Send("sendKey", key, sendKeyMessages(key, Lookup(Keys, key), ws, sockets))

sendText(text) ==
  Send("sendText", text, <<InputString(text)>>)

-----------------------------------------------------------------------------
(* Commands: launchApp and castToTV *)

APP_IDS ==
  ("Netflix" :> "11101200001") @@ ("YouTube" :> "111299001912")
  @@ ("Disney+" :> "3201901017640") @@ ("Hulu" :> "3201601007625")
  @@ ("HBO Max" :> "3202301029760") @@ ("Prime Video" :> "3201512006785")

\* The port of the application-launch endpoint.
APP_PORT == 8001

\* The app names a caller may give, and the characters they consist of: in
\* the table, numeric, partly numeric, inherited.
Chars ==
  ("Netflix" :> <<"N", "e", "t", "f", "l", "i", "x">>)
  @@ ("42" :> <<"4", "2">>) @@ ("4K" :> <<"4", "K">>)
  @@ ("constructor" :> <<"c", "o", "n", "s", "t", "r", "u", "c", "t", "o", "r">>)

AppInputs == DOMAIN Chars

Digits == {"0", "1", "2", "3", "4", "5", "6", "7", "8", "9"}

\* /^\d+$/.test(appName)
IsNumeric(appName) ==
  LET cs == Chars[appName]
  IN  Len(cs) > 0 /\ \A i \in 1..Len(cs) : cs[i] \in Digits

\* The POST request to the application endpoint of the device.
AppRequest(device, id, body) ==
  [ip |-> device.ip, port |-> APP_PORT, path |-> <<"api", "v2", "applications", id>>,
   method |-> "POST", body |-> body]

\* The answers fetch may give: a success response, a non-success response, or
\* a network error.
Responses == {"ok", "notok", "throw"}

\* launchApp(appName), with the answer of the device to the request, if one is
\* made.
launchApp(appName) ==
  LET appId == Lookup(APP_IDS, appName)
      resolvedId == IF Truthy(appId) THEN appId ELSE appName
  IN  /\ UNCHANGED <<ws, connectedDevice, savedToken, file, sockets, calls, lastOk, search, parse, discovery>>
      /\ dispatched' = <<>>
      /\ IF connectedDevice = Null
         THEN /\ requests' = {}
              /\ returned' = CommandReturn("launchApp", appName, FALSE, "NotConnected", FALSE)
         ELSE IF ~Truthy(appId) /\ ~IsNumeric(appName)
         THEN /\ requests' = {}
              /\ returned' = CommandReturn("launchApp", appName, FALSE, "UnknownApp", FALSE)
         ELSE /\ requests' = {AppRequest(connectedDevice, resolvedId, None)}
              /\ \E response \in Responses :
                   returned' = IF response = "ok"
                               THEN CommandReturn("launchApp", appName, TRUE, None, FALSE)
                               ELSE CommandReturn("launchApp", appName, FALSE, response, FALSE)

\* castToTV: the id of appName in the table, without a raw-id fallback.
castAppIdOrRaw(appName) ==
  IF appName \in DOMAIN APP_IDS THEN APP_IDS[appName]
  ELSE IF IsNumeric(appName) THEN appName ELSE None

castAppId(appName) ==
  IF appName \in DOMAIN APP_IDS THEN APP_IDS[appName] ELSE None

\* castToTV: the deep-link payload, tagged with metaTag if given, else with
\* contentId.
DeepLink(appId, contentId, metaTag) ==
  [appId |-> appId, tag |-> IF Truthy(metaTag) THEN metaTag ELSE contentId]

\* castToTV: the command that carries the payload on the channel.
DeepLinkCommand(payload) ==
  [method |-> "ms.channel.emit", event |-> "ed.apps.launch", data |-> payload]

\* The content ids and meta tags a caller may give.
ContentIds == {"v1"}
MetaTags == {None, "m1"}

\* castToTV(appName, contentId, metaTag): the table, then the channel and the
\* device, then the dispatch on the channel, which raises or not, and after a
\* raise the HTTP request with the same payload.
castToTV(appName, contentId, metaTag) ==
  LET appId == castAppId(appName)
      payload == DeepLink(appId, contentId, metaTag)
  IN  /\ UNCHANGED <<ws, connectedDevice, savedToken, file, sockets, calls, lastOk, search, parse, discovery>>
      /\ IF appId = None
         THEN /\ dispatched' = <<>> /\ requests' = {}
              /\ returned' = CommandReturn("castToTV", appName, FALSE, "UnknownApp", FALSE)
         ELSE IF ~channelOpen(ws, sockets) \/ connectedDevice = Null
         THEN /\ dispatched' = <<>> /\ requests' = {}
              /\ returned' = CommandReturn("castToTV", appName, FALSE, "NotConnected", FALSE)
         ELSE \/ /\ dispatched' = <<DeepLinkCommand(payload)>> /\ requests' = {}
                 /\ returned' = CommandReturn("castToTV", appName, TRUE, None, FALSE)
              \/ /\ dispatched' = <<>>
                 /\ requests' = {AppRequest(connectedDevice, appId, payload)}
                 /\ \E response \in Responses :
                      returned' = IF response = "ok"
                                  THEN CommandReturn("castToTV", appName, TRUE, None, TRUE)
                                  ELSE CommandReturn("castToTV", appName, FALSE, response, TRUE)

-----------------------------------------------------------------------------
(* Commands: smartSearch *)

\* A query is the sequence of its words, which single spaces separate; a
\* word replaced by the empty string leaves its two spaces side by side.
\* The alternatives of a pattern are sequences of words, tried in order.

\* The letters of a word in lower case (the patterns have the flag i), and the
\* characters that follow its letters.
Stem(w) ==
  CASE w = "Netflix" -> "netflix"
    [] w = "PLAY" -> "play"
    [] w = "disney+" -> "disney"
    [] OTHER -> w
Rest(w) == IF w = "disney+" THEN "+" ELSE ""

\* An alternative matches from word i on: its words are the letters of the
\* words of the query, with nothing but the space between them; \b holds
\* after the letters of the last one.
MatchAt(q, i, phrase) ==
  /\ i + Len(phrase) - 1 <= Len(q)
  /\ \A j \in 1..Len(phrase) :
       /\ Stem(q[i + j - 1]) = phrase[j]
       /\ j < Len(phrase) => Rest(q[i + j - 1]) = ""

\* The first alternative that matches at word i, or 0.
AltAt(q, i, alts) ==
  IF \E k \in 1..Len(alts) : MatchAt(q, i, alts[k])
  THEN CHOOSE k \in 1..Len(alts) :
         MatchAt(q, i, alts[k]) /\ \A l \in 1..(k - 1) : ~MatchAt(q, i, alts[l])
  ELSE 0

\* pattern.test(query)
Test(q, alts) == \E i \in 1..Len(q) : AltAt(q, i, alts) # 0

\* The match at word i replaced by "": what follows the letters of its last
\* word stays.
ReplaceAt(q, i, alts) ==
  LET n == Len(alts[AltAt(q, i, alts)])
  IN  SubSeq(q, 1, i - 1) \o <<Rest(q[i + n - 1])>> \o SubSeq(q, i + n, Len(q))

\* query.replace(pattern, ""): the leftmost match only.
ReplaceFirst(q, alts) ==
  IF Test(q, alts)
  THEN ReplaceAt(q, CHOOSE i \in 1..Len(q) :
                      AltAt(q, i, alts) # 0 /\ \A j \in 1..(i - 1) : AltAt(q, j, alts) = 0,
                 alts)
  ELSE q

\* .replace(/.../gi, ""): every match from word i on, left to right.
RECURSIVE ReplaceAll(_, _, _)
ReplaceAll(q, i, alts) ==
  IF i > Len(q) THEN q
  ELSE IF AltAt(q, i, alts) # 0 THEN ReplaceAll(ReplaceAt(q, i, alts), i + 1, alts)
  ELSE ReplaceAll(q, i + 1, alts)

\* .trim()
RECURSIVE Trim(_)
Trim(q) ==
  IF q = <<>> THEN q
  ELSE IF Head(q) = "" THEN Trim(Tail(q))
  ELSE IF q[Len(q)] = "" THEN Trim(SubSeq(q, 1, Len(q) - 1))
  ELSE q

APP_KEYWORDS ==
  << [pattern |-> << <<"on", "netflix">>, <<"netflix">> >>, app |-> "Netflix"],
     [pattern |-> << <<"on", "disney">>, <<"disney">> >>, app |-> "Disney+"],
     [pattern |-> << <<"on", "hulu">>, <<"hulu">> >>, app |-> "Hulu"],
     [pattern |-> << <<"on", "hbo">>, <<"hbo">>, <<"on", "max">> >>, app |-> "HBO Max"],
     [pattern |-> << <<"on", "prime">>, <<"prime", "video">>, <<"amazon">> >>,
      app |-> "Prime Video"],
     [pattern |-> << <<"on", "youtube">>, <<"youtube">> >>, app |-> "YouTube"] >>

\* /\b(put on|play|watch|find|search|search for|look up)\b/gi
StopList ==
  << <<"put", "on">>, <<"play">>, <<"watch">>, <<"find">>, <<"search">>,
     <<"search", "for">>, <<"look", "up">> >>

StripStopList(q) == Trim(ReplaceAll(q, 1, StopList))

parseSmartQuery(query) ==
  IF \E k \in 1..Len(APP_KEYWORDS) : Test(query, APP_KEYWORDS[k].pattern)
  THEN LET k == CHOOSE k \in 1..Len(APP_KEYWORDS) :
                  /\ Test(query, APP_KEYWORDS[k].pattern)
                  /\ \A l \in 1..(k - 1) : ~Test(query, APP_KEYWORDS[l].pattern)
       IN  [app |-> APP_KEYWORDS[k].app,
            search |-> StripStopList(ReplaceFirst(query, APP_KEYWORDS[k].pattern))]
  ELSE [app |-> "YouTube", search |-> StripStopList(query)]

\* The words of the queries made of any words, and these queries.
Words == {"search", "for", "cats", "play", "on", "netflix", "hulu", "Netflix"}

RECURSIVE QueriesOf(_)
QueriesOf(n) ==
  IF n = 0 THEN {<<>>}
  ELSE LET shorter == QueriesOf(n - 1)
       IN  shorter \cup {Append(q, w) : q \in {p \in shorter : Len(p) = n - 1}, w \in Words}

\* The queries of a verb phrase, a remainder and the phrase that names an app.
Remainders == { <<"cat", "videos">>, <<"stranger", "things">> }
Verbs == {StopList[k] : k \in 1..Len(StopList)} \cup { <<"PLAY">> }
Triggers ==
  { [phrase |-> <<"on", "netflix">>, app |-> "Netflix"],
    [phrase |-> <<"on", "Netflix">>, app |-> "Netflix"],
    [phrase |-> <<"on", "disney+">>, app |-> "Disney+"],
    [phrase |-> <<"hulu">>, app |-> "Hulu"] }

ParseInputs ==
  (QueriesOf(MaxWords) \ {<<>>})
  \cup Verbs
  \cup {v \o r : v \in Verbs, r \in Remainders}
  \cup {v \o r \o t.phrase : v \in Verbs, r \in Remainders, t \in Triggers}

\* The call of parseSmartQuery that is kept for the record (GET /api/parse):
\* the first one.
parseSmartQueryCall(query) ==
  /\ parse = NoParse
  /\ parse' = [query |-> query, result |-> parseSmartQuery(query)]
  /\ UNCHANGED <<ws, connectedDevice, savedToken, file, sockets, calls, returned, lastOk,
                 search, dispatched, requests, discovery>>

\* The queries a caller of smartSearch may give: one that names an app, and
\* with it one that is only a verb.
Queries == { <<"play", "cats", "on", "netflix">> }
SearchQueries == Queries \cup { <<"watch">> }

\* `search || query`
searchTermParsedOnly(parsedSearch, query) == parsedSearch

searchTermOf(parsedSearch, query) ==
  IF parsedSearch # <<>> THEN parsedSearch ELSE query

\* `ws && ws.readyState === WebSocket.OPEN && connectedDevice`
smartSearchHasDevice(w, socks, device) == device # Null

smartSearchConnected(w, socks, device) == channelOpen(w, socks) /\ device # Null

\* What smartSearch returns, and whether it raised instead.
SmartReturn(success, app, searchTerm, error, raised) ==
  [op |-> "smartSearch", success |-> success, app |-> app, search |-> searchTerm,
   error |-> error, raised |-> raised]

\* smartSearch(query) up to its first wait: the check, the parse, the first
\* key.  It makes no direct attempt to open the content before the keys.
smartSearch(query) ==
  LET parsed == parseSmartQuery(query)
      searchTerm == searchTermOf(parsed.search, query)
  IN  /\ search.pc = "idle"
      /\ requests' = {}
      /\ UNCHANGED <<ws, connectedDevice, savedToken, file, sockets, calls, lastOk, parse, discovery>>
      /\ IF ~smartSearchConnected(ws, sockets, connectedDevice)
         THEN /\ returned' = SmartReturn(FALSE, "", "", "NotConnected", FALSE)
              /\ dispatched' = <<>>
              /\ UNCHANGED search
         ELSE /\ returned' = Null
              /\ dispatched' = sendRawKey("KEY_SMART_HUB", ws, sockets)
              /\ search' = [pc |-> "hub", query |-> query, app |-> parsed.app,
                            searchTerm |-> searchTerm, direct |-> None]

\* After SMARTHUB_OPEN_DELAY: ws.send of the text, with no check and outside
\* any try block.  With ws null the call raises; on a socket that is not open
\* the library raises or drops the message; on an open socket the transport
\* may raise.
smartSearchText ==
  /\ search.pc = "hub"
  /\ requests' = {}
  /\ UNCHANGED <<ws, connectedDevice, savedToken, file, sockets, calls, lastOk, parse, discovery>>
  /\ \/ /\ ws # NoSocket
        /\ dispatched' = IF sockets[ws].readyState = "OPEN"
                         THEN <<InputString(search.searchTerm)>> ELSE <<>>
        /\ returned' = Null
        /\ search' = [search EXCEPT !.pc = "text"]
     \/ /\ dispatched' = <<>>
        /\ returned' = SmartReturn(FALSE, search.app, search.searchTerm, "TypeError", TRUE)
        /\ search' = IdleSearch

\* After SEARCH_INPUT_DELAY, SEARCH_RESULTS_DELAY and NAVIGATE_DELAY: the keys
\* that submit the search and select the first result, then the return.
smartSearchKey(from, key, to) ==
  /\ search.pc = from
  /\ requests' = {}
  /\ UNCHANGED <<ws, connectedDevice, savedToken, file, sockets, calls, lastOk, parse, discovery>>
  /\ dispatched' = sendRawKey(key, ws, sockets)
  /\ IF to = "idle"
     THEN /\ returned' = SmartReturn(TRUE, search.app, search.searchTerm, None, FALSE)
          /\ search' = IdleSearch
     ELSE /\ returned' = Null
          /\ search' = [search EXCEPT !.pc = to]

smartSearchSubmit == smartSearchKey("text", "KEY_ENTER", "results")
smartSearchDown == smartSearchKey("results", "KEY_DOWN", "down")
smartSearchSelect == smartSearchKey("down", "KEY_ENTER", "idle")

-----------------------------------------------------------------------------
(* Discovery: discoverTVs and probeTVByIP *)

\* The host addresses of the local subnet (1 to 254 in the code) and the
\* address of a host.
Hosts == 1..MaxHosts
HostIp(h) == "10.0.0." \o ToString(h)

\* The ports probeTVByIP tries, in order.
PROBE_PORTS == <<8001, 8002>>

\* The lists the passive pass (getAwakeSamsungDevices) may resolve with.
PassiveLists ==
  { <<>>,
    <<[ip |-> "ip1", mac |-> "m1", friendlyName |-> "TV"]>>,
    <<[ip |-> "ip1", mac |-> "m1", friendlyName |-> "TV"],
      [ip |-> "ip2", mac |-> "m2", friendlyName |-> "TV2"]>> }

\* data.device of a success response: without ip, or with the ip the device
\* reports for itself.
ProbeBodies == { [ip |-> None, wifiMac |-> "m1"], [ip |-> "10.0.0.1", wifiMac |-> "m1"] }

\* The device probeTVByIP makes of data.device.
ProbedDevice(h, d) ==
  [ip |-> IF Truthy(d.ip) THEN d.ip ELSE HostIp(h),
   mac |-> IF Truthy(d.wifiMac) THEN d.wifiMac ELSE "",
   friendlyName |-> "Samsung TV"]

\* probeTVByIP(ip) at its first request.
NewProbe == [port |-> 1, settled |-> FALSE, device |-> Null]

\* results.filter(d => d !== null), in the order of the hosts.
RECURSIVE FilterDevices(_)
FilterDevices(results) ==
  IF results = <<>> THEN <<>>
  ELSE IF Head(results).device = Null THEN FilterDevices(Tail(results))
  ELSE <<Head(results).device>> \o FilterDevices(Tail(results))

NoDiscovery ==
  UNCHANGED <<ws, connectedDevice, savedToken, file, sockets, calls, returned, lastOk,
              search, dispatched, requests, parse>>

\* discoverTVs() up to `await getAwakeSamsungDevices(timeout)`.
discoverTVs ==
  /\ discovery.pc = "idle"
  /\ discovery' = [IdleDiscovery EXCEPT !.pc = "passive"]
  /\ NoDiscovery

\* The passive pass resolves: its list is returned when it has a device;
\* otherwise getLocalSubnet() finds no address and [] is returned, or every
\* host of the subnet is probed.
passiveResolved(devices, localIP) ==
  /\ discovery.pc = "passive"
  /\ discovery' =
       IF Len(devices) > 0
       THEN [discovery EXCEPT !.pc = "returned", !.passive = devices, !.result = devices]
       ELSE IF ~localIP
       THEN [discovery EXCEPT !.pc = "returned", !.passive = devices, !.result = <<>>]
       ELSE [discovery EXCEPT !.pc = "probing", !.passive = devices,
                              !.probes = [h \in Hosts |-> NewProbe]]
  /\ NoDiscovery

\* The passive pass rejects: nothing in discoverTVs catches it.
passiveRejected ==
  /\ discovery.pc = "passive"
  /\ discovery' = [discovery EXCEPT !.pc = "raised", !.passive = "rejected"]
  /\ NoDiscovery

\* The request of probe h on its current port ends with a success response
\* that has a device in its body.
probeOk(h, d) ==
  /\ discovery.pc = "probing"
  /\ ~discovery.probes[h].settled
  /\ discovery' = [discovery EXCEPT !.probes[h].settled = TRUE,
                                    !.probes[h].device = ProbedDevice(h, d)]
  /\ NoDiscovery

\* The request of probe h on its current port fails (unreachable, aborted
\* after PROBE_TIMEOUT, non-success status, body that is no JSON or has no
\* device): the next port is tried, and after the last one the probe is null.
probeFailed(h) ==
  /\ discovery.pc = "probing"
  /\ ~discovery.probes[h].settled
  /\ discovery' =
       IF discovery.probes[h].port < Len(PROBE_PORTS)
       THEN [discovery EXCEPT !.probes[h].port = @ + 1]
       ELSE [discovery EXCEPT !.probes[h].settled = TRUE]
  /\ NoDiscovery

\* Promise.all(probes) resolves when every probe has settled.
probesSettled ==
  /\ discovery.pc = "probing"
  /\ \A h \in Hosts : discovery.probes[h].settled
  /\ discovery' = [discovery EXCEPT !.pc = "returned",
                                    !.result = FilterDevices(discovery.probes)]
  /\ NoDiscovery

\* The caller has the list, or the error; the next call may start.
discoverDone ==
  /\ discovery.pc \in {"returned", "raised"}
  /\ discovery' = IdleDiscovery
  /\ NoDiscovery

-----------------------------------------------------------------------------
(* Specifications *)

Live == DOMAIN sockets

\* The tokens the confirmation event of socket s may carry.
NewTokens(s) ==
  {None} \cup UNION {Issued(calls[c].device.ip) : c \in Awaiting(s)}

\* The documented discipline for connecting ("one connection attempt at a time"):
\* connectToTV and autoReconnect start only when no call is in progress;
\* disconnect() is synchronous and may be called at any time.
Next ==
  \/ \E c \in CallIds, d \in Devices, p \in Ports : AllFree /\ connectToTV(c, d, p)
  \/ \E c \in CallIds : AllFree /\ autoReconnect(c)
  \/ \E c \in CallIds : autoReconnectLoaded(c)
  \/ \E c \in CallIds : connectLoaded(c)
  \/ \E s \in Live : SocketOpen(s)
  \/ \E s \in Live : \E t \in NewTokens(s) : ConfirmEvent(s, t)
  \/ \E s \in Live, k \in {"1005", "io"} : ErrorEvent(s, k)
  \/ \E s \in Live : CloseEvent(s)
  \/ \E s \in Live : TimeoutEvent(s)
  \/ \E c \in CallIds : saveConnectionDone(c)
  \/ \E c \in CallIds : saveConnectionFailed(c)
  \/ disconnect
  \/ Restart

Spec == Init /\ [][Next]_vars

\* The same with disconnect() too called only when no call is in progress:
\* non-overlapping connectToTV and disconnect calls.
NextSeq ==
  \/ \E c \in CallIds, d \in Devices, p \in Ports : AllFree /\ connectToTV(c, d, p)
  \/ \E c \in CallIds : AllFree /\ autoReconnect(c)
  \/ \E c \in CallIds : autoReconnectLoaded(c)
  \/ \E c \in CallIds : connectLoaded(c)
  \/ \E s \in Live : SocketOpen(s)
  \/ \E s \in Live : \E t \in NewTokens(s) : ConfirmEvent(s, t)
  \/ \E s \in Live, k \in {"1005", "io"} : ErrorEvent(s, k)
  \/ \E s \in Live : CloseEvent(s)
  \/ \E s \in Live : TimeoutEvent(s)
  \/ \E c \in CallIds : saveConnectionDone(c)
  \/ \E c \in CallIds : saveConnectionFailed(c)
  \/ AllFree /\ disconnect
  \/ Restart

SpecSeq == Init /\ [][NextSeq]_vars

\* The request layer as it is (POST /api/connect awaits connectToTV without any
\* serialisation): connectToTV with a port given is called as requests arrive,
\* also while an earlier call is in progress, with at most MaxOverlapSockets
\* sockets in existence.
NextOverlap ==
  \/ \E c \in CallIds, d \in Devices :
        CanOpenOf(1, MaxOverlapSockets) /\ connectToTV(c, d, SECONDARY_PORT)
  \/ \E c \in CallIds : connectLoaded(c)
  \/ \E s \in Live : SocketOpen(s)
  \/ \E s \in Live : \E t \in NewTokens(s) : ConfirmEvent(s, t)
  \/ \E s \in Live, k \in {"1005", "io"} : ErrorEvent(s, k)
  \/ \E s \in Live : CloseEvent(s)
  \/ \E s \in Live : TimeoutEvent(s)
  \/ \E c \in CallIds : saveConnectionDone(c)
  \/ \E c \in CallIds : saveConnectionFailed(c)
  \/ disconnect
  \/ Restart

SpecOverlap == Init /\ [][NextOverlap]_vars

-----------------------------------------------------------------------------
(* Claims *)

\* The sockets of the manager's making whose transport is open or opening
\* (close() not called on them, not closed by the peer).
OpenSockets == {s \in Live : sockets[s].readyState \in {"CONNECTING", "OPEN"}}

\* A connectToTV call (direct, or made by autoReconnect) returned in the last step.
ConnectReturned == returned # Null /\ returned.op # "disconnect" /\ returned.called

\* C1: across non-overlapping connectToTV and disconnect calls interleaved with
\* channel events, the manager never has more than one open socket of its own
\* making: every socket it opened earlier is closed before the next handshake
\* starts.  (SpecSeq)
C1_OneOpenSocket == Cardinality(OpenSockets) <= 1

\* C2: when connectToTV is invoked while an earlier connectToTV call is still
\* awaiting its handshake, no reachable state has two handshakes in flight at
\* once.  (SpecOverlap)
C2_OneHandshakeInFlight ==
  Cardinality({c \in CallIds : calls[c].pc = "hs"}) <= 1

\* C3: after connectToTV has returned success, every closure of the channel
\* that disconnect() did not cause clears ws and connectedDevice: no step closes
\* the socket ws names and leaves ws naming it.
C3_ClosureClearsState ==
  [][ (AllFree /\ ws # NoSocket /\ sockets[ws].readyState # "CLOSED"
         /\ ws' # NoSocket)
      => sockets'[ws'].readyState # "CLOSED" ]_vars

\* C4: every handshake attempt of connectToTV(ip), on each port it tries, carries
\* no token when there is no persisted record, when the record has another ip, or
\* when the record has no token; and a token it carries was issued by the device
\* at the ip the attempt goes to.
C4_TokenOnlyForSameIp ==
  \A c \in CallIds :
    calls[c].pc = "hs" =>
      LET saved == loadSavedConnection(file)
          url == calls[c].url
      IN /\ url.ip = calls[c].device.ip
         /\ (saved = Null \/ saved.ip # url.ip \/ ~Truthy(saved.token))
              => url.token = None
         /\ url.token # None => url.token \in Issued(url.ip)

\* C4 witness: the attempt on the secondary port, to an ip other than the one of
\* the persisted record, which holds a token, goes without a token.
C4_Witness ==
  \E c \in CallIds :
    /\ calls[c].pc = "hs" /\ calls[c].attempt = 2
    /\ loadSavedConnection(file) # Null
    /\ Truthy(file.token) /\ file.ip # calls[c].device.ip
    /\ calls[c].url.port = SECONDARY_PORT /\ calls[c].url.token = None

\* C5: after a connectToTV to ip X succeeded holding token T, with no later
\* successful connect to any ip, every handshake attempt of a connectToTV(X)
\* presents T; at the least it presents a token of X and does not go as an
\* unpaired client.
C5_ReusesLastToken ==
  \A c \in CallIds :
    (calls[c].pc = "hs" /\ lastOk # Null /\ Truthy(lastOk.token)
       /\ calls[c].device.ip = lastOk.ip)
    => calls[c].url.token \in Issued(lastOk.ip)

\* C6: when connectToTV returns success the persisted record is exactly the ip,
\* mac and friendlyName of the call with the token of the confirmation event if
\* it carried one, else the token presented in the handshake.
C6_RecordOfConnection ==
  (ConnectReturned /\ returned.success) =>
    file = [ip |-> returned.device.ip, mac |-> returned.device.mac,
            friendlyName |-> returned.device.friendlyName,
            token |-> IF Truthy(returned.newToken) THEN returned.newToken
                      ELSE returned.token]

\* C6 witness: a success whose confirmation carried a token other than the one
\* presented: the record now holds the new one.
C6_Witness ==
  /\ ConnectReturned /\ returned.success
  /\ Truthy(returned.token) /\ Truthy(returned.newToken)
  /\ returned.newToken # returned.token
  /\ file.token = returned.newToken

DisconnectReturned == returned = [op |-> "disconnect"]

\* C7: disconnect() can run in every reachable state; right after it getStatus
\* is {connected: false, device: null}; and a second disconnect() right after
\* the first leaves ws, connectedDevice and the persisted record as they were.
C7_DisconnectIdempotent ==
  /\ [](ENABLED disconnect)
  /\ [](DisconnectReturned => getStatus = [connected |-> FALSE, device |-> Null])
  /\ [][ (DisconnectReturned /\ DisconnectReturned')
          => (ws' = ws /\ connectedDevice' = connectedDevice /\ file' = file) ]_vars

\* C7 witness: disconnect() has just closed an established connection.
C7_Witness ==
  /\ DisconnectReturned /\ ws = NoSocket /\ connectedDevice = Null
  /\ \E s \in Live : /\ sockets[s].promise = "resolved"
                     /\ sockets[s].readyState = "CLOSING"
                     /\ sockets[s].listeners = {}

\* C8: autoReconnect() with no persisted record (absent or unreadable) returns
\* false, opens no socket and changes nothing of the ConnectionState; with a
\* record it calls connectToTV with the saved ip, mac and friendlyName and no
\* port, and returns true exactly when that call succeeded.
C8_AutoReconnect ==
  /\ [](returned # Null /\ returned.op = "autoReconnect"
          => returned.autoResult = (returned.called /\ returned.success))
  /\ [][ \A c \in CallIds :
            (calls[c].pc = "autoLoad" /\ calls'[c] # calls[c]) =>
              \/ Restart
              \/ /\ loadSavedConnection(file) = Null
                 /\ returned' = ReturnNoSaved
                 /\ UNCHANGED <<ws, connectedDevice, savedToken, file, sockets>>
              \/ /\ loadSavedConnection(file) # Null
                 /\ calls'[c].pc = "loading" /\ calls'[c].port = NoPort
                 /\ calls'[c].device = [ip |-> file.ip, mac |-> file.mac,
                                        friendlyName |-> file.friendlyName]
        ]_vars

\* C8 witness: autoReconnect() returned false on an unreadable record.
C8_Witness == returned = ReturnNoSaved /\ file = Corrupt /\ sockets = <<>>

\* C9: whenever a handshake attempt of connectToTV is rejected by the device
\* (the 1005 signal), on an explicit port or on either port of the two-port
\* sequence, connectToTV returns failure with the rejected message.
C9_RejectionReported ==
  (ConnectReturned /\ "1005" \in {returned.first, returned.last})
  => (~returned.success /\ returned.error = "rejected")

\* The sockets whose handshake timer expired before a confirmation.
TimedOut == {s \in Live : sockets[s].promise = "timeout"}

\* C10 (as stated): a handshake attempt that times out is aborted and
\* connectToTV reports a timeout error, whichever attempt it was.
C10_TimeoutReported ==
  (ConnectReturned /\ "timeout" \in {returned.first, returned.last})
  => (~returned.success /\ returned.error = "timeout")

\* C10 (amended): a handshake attempt that times out is aborted: its socket is
\* closed (close() called), its listeners are detached and its timer is off, no
\* call awaits it and ws never names it, so no later event of it changes the
\* outcome or the ConnectionState; connectToTV reports a timeout error when the
\* attempt that timed out was its last one (the explicit port, or the secondary
\* port), and only then.
C10_TimeoutAborts ==
  /\ \A s \in TimedOut :
       /\ sockets[s].listeners = {}
       /\ ~sockets[s].timer
       /\ sockets[s].readyState \in {"CLOSING", "CLOSED"}
       /\ ws # s
       /\ \A c \in CallIds : calls[c].sock # s
  /\ ConnectReturned =>
       /\ returned.last = "timeout" => ~returned.success
       /\ returned.last = "timeout" <=> returned.error = "timeout"

\* C10 witness: the attempt on the secondary port timed out and connectToTV
\* returned the timeout error; the socket is closing without listeners.
C10_Witness ==
  /\ ConnectReturned /\ returned.port = NoPort /\ returned.first # None
  /\ returned.last = "timeout" /\ returned.error = "timeout"
  /\ \E s \in TimedOut : sockets[s].readyState = "CLOSING"

\* The commands with the connection manager: connectToTV with a port given and
\* one call at a time, the channel events, disconnect(), and the commands at any
\* time, with at most MaxCmdSockets sockets in existence.
NextCmd ==
  \/ \E c \in CallIds, d \in Devices :
        AllFree /\ CanOpenOf(1, MaxCmdSockets) /\ connectToTV(c, d, SECONDARY_PORT)
  \/ \E c \in CallIds : connectLoaded(c)
  \/ \E s \in Live : SocketOpen(s)
  \/ \E s \in Live : \E t \in NewTokens(s) : ConfirmEvent(s, t)
  \/ \E s \in Live, k \in {"1005", "io"} : ErrorEvent(s, k)
  \/ \E s \in Live : CloseEvent(s)
  \/ \E s \in Live : TimeoutEvent(s)
  \/ \E c \in CallIds : saveConnectionDone(c)
  \/ \E c \in CallIds : saveConnectionFailed(c)
  \/ disconnect
  \/ Restart
  \/ \E k \in KeyInputs : sendKey(k)
  \/ \E t \in TextInputs : sendText(t)

SpecCmd == Init /\ [][NextCmd]_vars

\* The same with launchApp and castToTV as the commands.
NextApp ==
  \/ \E c \in CallIds, d \in Devices :
        AllFree /\ CanOpenOf(1, MaxCmdSockets) /\ connectToTV(c, d, SECONDARY_PORT)
  \/ \E c \in CallIds : connectLoaded(c)
  \/ \E s \in Live : SocketOpen(s)
  \/ \E s \in Live : \E t \in NewTokens(s) : ConfirmEvent(s, t)
  \/ \E s \in Live, k \in {"1005", "io"} : ErrorEvent(s, k)
  \/ \E s \in Live : CloseEvent(s)
  \/ \E s \in Live : TimeoutEvent(s)
  \/ \E c \in CallIds : saveConnectionDone(c)
  \/ \E c \in CallIds : saveConnectionFailed(c)
  \/ disconnect
  \/ Restart
  \/ \E a \in AppInputs : launchApp(a)
  \/ \E a \in AppInputs, i \in ContentIds, m \in MetaTags : castToTV(a, i, m)

SpecApp == Init /\ [][NextApp]_vars

\* The same with smartSearch as the command: one call at a time, its waits
\* interleaved with the channel events and disconnect().
NextSmart ==
  \/ \E c \in CallIds, d \in Devices :
        AllFree /\ CanOpenOf(1, MaxCmdSockets) /\ connectToTV(c, d, SECONDARY_PORT)
  \/ \E c \in CallIds : connectLoaded(c)
  \/ \E s \in Live : SocketOpen(s)
  \/ \E s \in Live : \E t \in NewTokens(s) : ConfirmEvent(s, t)
  \/ \E s \in Live, k \in {"1005", "io"} : ErrorEvent(s, k)
  \/ \E s \in Live : CloseEvent(s)
  \/ \E s \in Live : TimeoutEvent(s)
  \/ \E c \in CallIds : saveConnectionDone(c)
  \/ \E c \in CallIds : saveConnectionFailed(c)
  \/ disconnect
  \/ Restart
  \/ \E q \in Queries : smartSearch(q)
  \/ smartSearchText
  \/ smartSearchSubmit
  \/ smartSearchDown
  \/ smartSearchSelect

SpecSmart == Init /\ [][NextSmart]_vars

\* smartSearch with more queries, in runs with at most MaxSearchSockets sockets
\* in existence.
NextSearch ==
  \/ \E c \in CallIds, d \in Devices :
        AllFree /\ CanOpenOf(1, MaxSearchSockets) /\ connectToTV(c, d, SECONDARY_PORT)
  \/ \E c \in CallIds : connectLoaded(c)
  \/ \E s \in Live : SocketOpen(s)
  \/ \E s \in Live : \E t \in NewTokens(s) : ConfirmEvent(s, t)
  \/ \E s \in Live, k \in {"1005", "io"} : ErrorEvent(s, k)
  \/ \E s \in Live : CloseEvent(s)
  \/ \E s \in Live : TimeoutEvent(s)
  \/ \E c \in CallIds : saveConnectionDone(c)
  \/ \E c \in CallIds : saveConnectionFailed(c)
  \/ disconnect
  \/ Restart
  \/ \E q \in SearchQueries : smartSearch(q)
  \/ smartSearchText
  \/ smartSearchSubmit
  \/ smartSearchDown
  \/ smartSearchSelect

SpecSearch == Init /\ [][NextSearch]_vars

\* parseSmartQuery alone, called with any of the queries, in a process that
\* has no record.
InitParse == Init /\ file = Null

NextParse == parse = NoParse /\ \E q \in ParseInputs : parseSmartQueryCall(q)

SpecParse == InitParse /\ [][NextParse]_vars

\* discoverTVs alone (GET /api/discover), one call at a time.
NextDiscover ==
  \/ discoverTVs
  \/ \E devices \in PassiveLists, localIP \in BOOLEAN : passiveResolved(devices, localIP)
  \/ passiveRejected
  \/ \E h \in Hosts, d \in ProbeBodies : probeOk(h, d)
  \/ \E h \in Hosts : probeFailed(h)
  \/ probesSettled
  \/ discoverDone

SpecDiscover == Init /\ [][NextDiscover]_vars

\* C11: whenever connectToTV returns failure, for whatever reason, the
\* ConnectionState is cleared: getStatus right afterwards is
\* {connected: false, device: null}.
C11_FailureClearsState ==
  (ConnectReturned /\ ~returned.success)
  => (ws = NoSocket /\ connectedDevice = Null
      /\ getStatus = [connected |-> FALSE, device |-> Null])

\* C11 witness: connectToTV returned failure after its handshake had been
\* confirmed and the device set (the record could not be persisted), with the
\* socket of that handshake still open.
C11_Witness ==
  /\ ConnectReturned /\ ~returned.success /\ returned.error = "persist"
  /\ getStatus = [connected |-> FALSE, device |-> Null]
  /\ \E s \in Live : sockets[s].promise = "resolved" /\ sockets[s].readyState = "OPEN"

\* The sockets whose handshake is outstanding.
Pending == {s \in Live : sockets[s].promise = "pending"}

\* C12: with a port given connectToTV makes one handshake attempt, on that
\* port, and its failure is the result; without a port it attempts the primary
\* port, and the secondary port only after the primary attempt failed; never
\* more than two attempts, never two outstanding together, never an attempt
\* after one that succeeded; and no handshake is outstanding that no call
\* awaits (nothing reconnects of its own accord after a closure).
C12_Attempts ==
  /\ [](/\ Cardinality(Pending) <= 1
        /\ \A s \in Pending : \E c \in CallIds : calls[c].pc = "hs" /\ calls[c].sock = s
        /\ \A c \in CallIds : calls[c].pc = "hs" =>
             /\ calls[c].attempt \in {1, 2}
             /\ calls[c].port # NoPort =>
                  calls[c].attempt = 1 /\ calls[c].url.port = calls[c].port
             /\ (calls[c].port = NoPort /\ calls[c].attempt = 1) =>
                  calls[c].url.port = PRIMARY_PORT /\ calls[c].first = None
             /\ calls[c].attempt = 2 =>
                  /\ calls[c].port = NoPort
                  /\ calls[c].url.port = SECONDARY_PORT
                  /\ calls[c].first \in {"1005", "io", "close", "timeout"}
        /\ (ConnectReturned /\ returned.port # NoPort) =>
             /\ returned.first = None
             /\ returned.last # None => ~returned.success)
  /\ [][ \A c \in CallIds :
            /\ calls[c].pc = "saving" => calls'[c].pc # "hs"
            /\ (calls[c].pc = "hs" /\ calls'[c].pc = "hs")
                 => calls'[c].attempt >= calls[c].attempt
            /\ (calls[c].pc # "hs" /\ calls'[c].pc = "hs")
                 => calls[c].pc = "loading" /\ calls'[c].attempt = 1 ]_vars

\* C12 witness: the attempt on the secondary port is outstanding, alone, after
\* the attempt on the primary port was rejected.
C12_Witness ==
  \E c \in CallIds :
    /\ calls[c].pc = "hs" /\ calls[c].attempt = 2 /\ calls[c].first = "1005"
    /\ calls[c].url.port = SECONDARY_PORT
    /\ Pending = {calls[c].sock}


\* A step in which sendKey or sendText was called and returned.
SendReturned == returned' # Null /\ returned'.op \in {"sendKey", "sendText"}

\* C13: sendKey and sendText called without a live channel (ws null, or its
\* socket not open) return the not-connected failure, dispatch nothing, and
\* leave the connection state and the persisted record as they were.
C13_NotConnected ==
  [][(SendReturned /\ (ws = NoSocket \/ sockets[ws].readyState # "OPEN"))
     => /\ ~returned'.success /\ returned'.error = "NotConnected"
        /\ dispatched' = <<>> /\ requests' = {}
        /\ UNCHANGED <<ws, connectedDevice, savedToken, file, sockets>>]_vars

\* sendKey has returned the not-connected failure while ws still names a socket
\* that is no longer open.
C13_Witness ==
  /\ returned # Null /\ returned.op = "sendKey" /\ returned.error = "NotConnected"
  /\ ws # NoSocket /\ sockets[ws].readyState = "CLOSING"
  /\ connectedDevice # Null /\ dispatched = <<>>

\* C14: when the transport raises while sendKey or sendText is dispatching on a
\* live channel, the call returns a failure and the connection state is cleared.
C14_RaiseClearsState ==
  [][(SendReturned /\ returned'.raised)
     => /\ ~returned'.success
        /\ ws' = NoSocket /\ connectedDevice' = Null
        /\ getStatus' = [connected |-> FALSE, device |-> Null]]_vars

\* sendText has failed on a raise of the transport; the socket it was using is
\* still open but the connection state is cleared.
C14_Witness ==
  /\ returned # Null /\ returned.op = "sendText" /\ returned.raised /\ ~returned.success
  /\ ws = NoSocket /\ connectedDevice = Null
  /\ \E s \in Live : sockets[s].readyState = "OPEN" /\ sockets[s].promise = "resolved"

\* C15: on a live channel whose transport does not raise, every sendKey(key)
\* dispatches exactly one key-click command and returns success: the table's
\* value when key is in the symbolic-key table, the literal key as a raw key
\* code when it is not.
C15_OneKeyClick ==
  [][(returned' # Null /\ returned'.op = "sendKey" /\ ~returned'.raised
      /\ ws # NoSocket /\ sockets[ws].readyState = "OPEN")
     => /\ returned'.success
        /\ dispatched' =
             <<[method |-> "ms.remote.control", Cmd |-> "Click",
                DataOfCmd |-> IF returned'.arg \in DOMAIN Keys
                              THEN Keys[returned'.arg] ELSE returned'.arg,
                Option |-> FALSE, TypeOfRemote |-> "SendRemoteKey"]>>]_vars

\* A step in which the named command was called and returned.
CommandReturned(op) == returned' # Null /\ returned'.op = op

\* C16: launchApp issues an HTTP request exactly when a device is associated
\* and appName is in the table (the table's id) or purely numeric (the name as
\* raw id); otherwise it fails with UnknownApp, or NotConnected when no device
\* is associated, and issues no request.
C16_LaunchRequests ==
  [][CommandReturned("launchApp")
     => LET appName == returned'.arg
            resolves == appName \in DOMAIN APP_IDS \/ IsNumeric(appName)
            id == IF appName \in DOMAIN APP_IDS THEN APP_IDS[appName] ELSE appName
        IN  /\ dispatched' = <<>>
            /\ (connectedDevice = Null)
                 => (requests' = {} /\ returned'.error = "NotConnected")
            /\ (connectedDevice # Null /\ ~resolves)
                 => (requests' = {} /\ returned'.error = "UnknownApp")
            /\ (connectedDevice # Null /\ resolves)
                 => requests' = {AppRequest(connectedDevice, id, None)}]_vars

\* C17: castToTV with an app name that is not in the table fails with
\* UnknownApp in every connection state, also when the name is numeric; it
\* dispatches nothing and issues no HTTP request.
C17_CastUnknownApp ==
  [][(CommandReturned("castToTV") /\ returned'.arg \notin DOMAIN APP_IDS)
     => /\ ~returned'.success /\ returned'.error = "UnknownApp"
        /\ dispatched' = <<>> /\ requests' = {}
        /\ UNCHANGED <<ws, connectedDevice, savedToken, file, sockets>>]_vars

\* castToTV has failed with UnknownApp for a numeric name on a live channel
\* with a device associated.
C17_Witness ==
  /\ returned # Null /\ returned.op = "castToTV" /\ returned.arg = "42"
  /\ returned.error = "UnknownApp"
  /\ ws # NoSocket /\ sockets[ws].readyState = "OPEN" /\ connectedDevice # Null
  /\ dispatched = <<>> /\ requests = {}

\* A step in which smartSearch was called: it returned at once or went on to
\* its first wait.
SmartCalled ==
  search.pc = "idle" /\ (search'.pc = "hub" \/ CommandReturned("smartSearch"))

\* C18: smartSearch called without a live channel (ws null, its socket not
\* open, or no device associated) returns success:false with NotConnected,
\* dispatches nothing, makes no network call and leaves the connection state
\* as it was.
C18_SmartNotConnected ==
  [][(SmartCalled
      /\ (ws = NoSocket \/ sockets[ws].readyState # "OPEN" \/ connectedDevice = Null))
     => /\ CommandReturned("smartSearch")
        /\ ~returned'.success /\ returned'.error = "NotConnected"
        /\ dispatched' = <<>> /\ requests' = {}
        /\ UNCHANGED <<ws, connectedDevice, savedToken, file, sockets, search>>]_vars

\* smartSearch has returned NotConnected while ws and connectedDevice are
\* still set and the socket is closing.
C18_Witness ==
  /\ returned # Null /\ returned.op = "smartSearch" /\ returned.error = "NotConnected"
  /\ ws # NoSocket /\ sockets[ws].readyState = "CLOSING" /\ connectedDevice # Null
  /\ dispatched = <<>> /\ search.pc = "idle"

\* C19: once smartSearch has passed its initial check it never raises and
\* never returns a failure, whatever happens to the channel during its waits:
\* every return after the check is success:true.
C19_SmartAlwaysSucceeds ==
  [][(search.pc # "idle" /\ CommandReturned("smartSearch"))
     => (returned'.success /\ ~returned'.raised)]_vars

\* C20: smartSearch dispatches the keys of the scripted fallback only after
\* its direct attempt failed: the cast failed, or the video search gave no
\* result.
C20_FallbackOnlyAfterCast ==
  [][(SmartCalled /\ dispatched' # <<>> /\ dispatched'[1] = KeyClick("KEY_SMART_HUB"))
     => search'.direct \in {"castFailed", "noResults"}]_vars

\* C21: parseSmartQuery strips the stoplist phrases as whole phrases: a query
\* that is only a stoplist phrase yields app YouTube and an empty search, and a
\* stoplist phrase followed by a remainder without keyword and stoplist phrase
\* yields app YouTube and the remainder as search.
C21_StopListStripped ==
  parse.query # None
  => \A k \in 1..Len(StopList) :
       /\ parse.query = StopList[k]
            => parse.result = [app |-> "YouTube", search |-> <<>>]
       /\ \A r \in Remainders :
            parse.query = StopList[k] \o r
              => parse.result = [app |-> "YouTube", search |-> r]

\* The apps in the order of their priority.
AppOrder == <<"Netflix", "Disney+", "Hulu", "HBO Max", "Prime Video", "YouTube">>

\* C22: parseSmartQuery selects the earliest app in the priority order whose
\* keyword pattern the query matches, wherever the keywords are and whatever
\* their case, and removes the trigger phrase and the stoplist verbs from the
\* search: a verb, a remainder and a trigger phrase yield the app of the
\* trigger and the remainder.
C22_PriorityOrder ==
  parse.query # None
  => /\ \A k \in 1..Len(AppOrder) :
          ( /\ Test(parse.query, APP_KEYWORDS[k].pattern)
            /\ \A l \in 1..(k - 1) : ~Test(parse.query, APP_KEYWORDS[l].pattern) )
          => parse.result.app = AppOrder[k]
     /\ \A v \in Verbs, r \in Remainders, t \in Triggers :
          parse.query = v \o r \o t.phrase
            => parse.result = [app |-> t.app, search |-> r]

\* C23: discoverTVs probes the subnet only after the passive pass has
\* completed with zero devices, and the list it returns, from either path,
\* has no two entries with the same ip.
C23_NoDuplicateIp ==
  /\ discovery.probes # <<>> => discovery.passive = <<>>
  /\ discovery.pc = "returned"
       => \A i, j \in 1..Len(discovery.result) :
            discovery.result[i].ip = discovery.result[j].ip => i = j

\* C24: discoverTVs never raises to its caller, whatever fails in the passive
\* pass or in a probe; after the active fallback it returns only when every
\* probe has settled, with exactly the devices of the probes that succeeded.
C24_NeverRaises ==
  /\ discovery.pc # "raised"
  /\ (discovery.pc = "returned" /\ discovery.probes # <<>>)
       => /\ \A h \in Hosts : discovery.probes[h].settled
          /\ \A d \in {discovery.result[i] : i \in 1..Len(discovery.result)} :
               \E h \in Hosts : discovery.probes[h].device = d
          /\ \A h \in Hosts :
               discovery.probes[h].device # Null
                 => \E i \in 1..Len(discovery.result) :
                      discovery.result[i] = discovery.probes[h].device

\* A step of the smartSearch call in progress from the position named, in which
\* it did not raise.
SmartStep(from) ==
  /\ search.pc = from /\ search' # search
  /\ ~(search' = IdleSearch /\ returned' = Null)
  /\ ~(returned' # Null /\ returned'.raised)

\* ws names an open socket.
ChannelIsOpen == ws # NoSocket /\ sockets[ws].readyState = "OPEN"

\* C25: on a channel that is open at each of its steps smartSearch dispatches
\* five commands in this order, one per step and each after the wait that
\* follows the one before: KEY_SMART_HUB, the text, KEY_ENTER, KEY_DOWN,
\* KEY_ENTER.  It returns in the step of the fifth and not before.  The text
\* is the parsed search, or the raw query when the parsed search is empty, and
\* the search field returned is the text.
C25_FiveCommands ==
  [][ /\ (SmartCalled /\ search'.pc = "hub")
         => /\ dispatched' = <<KeyClick("KEY_SMART_HUB")>> /\ returned' = Null
            /\ search'.searchTerm =
                 LET parsed == parseSmartQuery(search'.query)
                 IN  IF parsed.search = <<>> THEN search'.query ELSE parsed.search
      /\ (SmartStep("hub") /\ ChannelIsOpen)
         => /\ dispatched' = <<[method |-> "ms.remote.control",
                                Cmd |-> Base64(search.searchTerm),
                                DataOfCmd |-> "base64",
                                TypeOfRemote |-> "SendInputString"]>>
            /\ search'.pc = "text" /\ returned' = Null
      /\ (SmartStep("text") /\ ChannelIsOpen)
         => /\ dispatched' = <<KeyClick("KEY_ENTER")>>
            /\ search'.pc = "results" /\ returned' = Null
      /\ (SmartStep("results") /\ ChannelIsOpen)
         => /\ dispatched' = <<KeyClick("KEY_DOWN")>>
            /\ search'.pc = "down" /\ returned' = Null
      /\ (SmartStep("down") /\ ChannelIsOpen)
         => /\ dispatched' = <<KeyClick("KEY_ENTER")>>
            /\ search'.pc = "idle"
            /\ returned' = SmartReturn(TRUE, search.app, search.searchTerm, None, FALSE)
      /\ \A pc \in {"hub", "text", "results", "down"} :
           (search.pc = pc /\ search' # search /\ search'.pc # "idle")
             => search' = [search EXCEPT !.pc = search'.pc]
    ]_vars

\* smartSearch has returned success for the query that is only a verb, with the
\* raw query as search, in the step that dispatched the fifth command on an
\* open channel.
C25_Witness ==
  /\ returned # Null /\ returned.op = "smartSearch" /\ returned.success
  /\ returned.search = <<"watch">> /\ returned.app = "YouTube"
  /\ dispatched = <<KeyClick("KEY_ENTER")>>
  /\ ws # NoSocket /\ sockets[ws].readyState = "OPEN"

\* C26: whenever connectToTV returns success, the channel it established has
\* not already closed: it never returns success with ws and connectedDevice
\* left referring to a closed socket.
C26_SuccessOnOpenChannel ==
  (ConnectReturned /\ returned.success)
  => ~(ws # NoSocket /\ connectedDevice # Null /\ sockets[ws].readyState = "CLOSED")

\* C27: in every state between two steps ws is null if and only if
\* connectedDevice is null, and getStatus never reports connected:true
\* together with device:null.
C27_WsIffDevice ==
  /\ (ws = NoSocket) <=> (connectedDevice = Null)
  /\ ~(getStatus.connected /\ getStatus.device = Null)

\* A connection was established and the catch block of sendKey has cleared
\* both ws and connectedDevice, while the socket is still open.
C27_Witness ==
  /\ lastOk # Null /\ AllFree
  /\ returned # Null /\ returned.op = "sendKey" /\ returned.raised
  /\ ws = NoSocket /\ connectedDevice = Null
  /\ getStatus = [connected |-> FALSE, device |-> Null]
  /\ \E s \in Live : sockets[s].readyState = "OPEN"

\* The sockets of a state that are as the one ws names in this state.
SocketsAsWs(socks) == {s \in DOMAIN socks : socks[s] = sockets[ws]}

\* C28: with non-overlapping calls no event of a socket that was torn down by
\* disconnect(), replaced by a later connectToTV or abandoned by a failed
\* handshake changes the ConnectionState, and a late close of an old socket
\* never clears the ws and connectedDevice of a newer connection: a step in
\* which no call starts, proceeds or returns clears them only when it is an
\* event of the socket ws names, which is closed after it.
C28_LateEventsIgnored ==
  [][ (/\ ws # NoSocket /\ connectedDevice # Null
       /\ calls' = calls /\ returned' = Null
       /\ (ws' = NoSocket \/ connectedDevice' = Null))
      => Cardinality(SocketsAsWs(sockets')) < Cardinality(SocketsAsWs(sockets)) ]_vars

\* C29: only a connectToTV whose handshake succeeded writes the persisted
\* record, and it writes its device with the token of that handshake; a call
\* whose handshake failed on every port it tried, disconnect(), the commands
\* and the closures leave the record exactly as it was.
C29_RecordOnlyAfterHandshake ==
  [][ /\ file' # file
         => \E c \in CallIds :
              /\ calls[c].pc = "saving" /\ calls'[c].pc = "idle"
              /\ file' = [ip |-> calls[c].device.ip, mac |-> calls[c].device.mac,
                          friendlyName |-> calls[c].device.friendlyName,
                          token |-> IF calls[c].newToken # None
                                    THEN calls[c].newToken ELSE calls[c].token]
      /\ (returned' # Null /\ returned'.op \in {"connectToTV", "autoReconnect"}
          /\ returned'.called /\ returned'.last # None)
         => (~returned'.success /\ file' = file)
    ]_vars

\* connectToTV without a port has failed on both ports while the record of the
\* same device with its token is still on disk.
C29_Witness ==
  /\ ConnectReturned /\ ~returned.success
  /\ returned.port = NoPort /\ returned.first # None /\ returned.last # None
  /\ file \in SavedRecords /\ file.token # None /\ file.ip = returned.device.ip
====
